---- MODULE Spec2Model ----
(***************************************************************************)
(* FramebufferSurface (services/surfaceflinger/DisplayHardware):  the      *)
(* consumer end of the framebuffer BufferQueue.  The surface tracks one    *)
(* current slot (mCurrentBufferSlot) and one current buffer handle         *)
(* (mCurrentBuffer), latches the next queued buffer in nextBuffer(),       *)
(* releases the previously latched one and posts the latched buffer with   *)
(* its acquire fence to the hardware composer (HWComposer::fbPost).        *)
(*                                                                         *)
(* The BufferQueue / ConsumerBase side (acquireBufferLocked,               *)
(* releaseBufferLocked, ConsumerBase::freeBufferLocked, addReleaseFence)   *)
(* is not part of FramebufferSurface.cpp; it is modelled from its contract *)
(* and its results are inputs chosen by the environment.                   *)
(***************************************************************************)
EXTENDS Integers, Sequences, FiniteSets, TLC

\* ------------------------------------------------------------------ bounds
NumSlots == 2
NumBuffers == 3

\* --------------------------------------------------------------- constants
INVALID_BUFFER_SLOT == -1
NullBuffer == 0
NoFence == 0

Slots == 0 .. (NumSlots - 1)
Buffers == 1 .. NumBuffers
\* Fences and fence descriptors are passed on and never inspected beyond the
\* descriptor's sign: one value of each kind stands for all of them.
Fences == {1}
FenceFds == {-1, 0}
Rects == {"r0", "r1"}

NO_ERROR == "NO_ERROR"
NO_BUFFER_AVAILABLE == "NO_BUFFER_AVAILABLE"
STALE_BUFFER_SLOT == "STALE_BUFFER_SLOT"
INVALID_OPERATION == "INVALID_OPERATION"
PoolErrors == {"NO_INIT", "BAD_VALUE"}
PosterErrors == {"POST_FAILED"}

VARIABLES
    mCurrentBufferSlot, \* FramebufferSurface::mCurrentBufferSlot
    mCurrentBuffer,     \* FramebufferSurface::mCurrentBuffer
    mSlots,             \* ConsumerBase::mSlots: buffer handle and release fence per slot
    slotState,          \* lifecycle state of each pool slot: Free, Acquired, Current
    last,               \* the last call: operation, inputs, calls made, results
    lastReturned,       \* buffer returned by the most recent successful nextBuffer()
    currentItemFence,   \* acquire fence of the item through which the current buffer was latched
    freedCurrent,       \* the current slot was freed and nothing was latched since
    scen,               \* progress through the acquire sequence 0, 1, none, 0 (-1: left it)
    thr                 \* threads: the holder of mMutex, each thread's position and locals

vars == <<mCurrentBufferSlot, mCurrentBuffer, mSlots, slotState, last,
          lastReturned, currentItemFence, freedCurrent, scen, thr>>

\* The bookkeeping of calls that run one at a time.
hist == <<last, lastReturned, currentItemFence, freedCurrent, scen>>

\* ------------------------------------------------------------ call records
Ev(k, slot, buf, fence) == [k |-> k, slot |-> slot, buf |-> buf, fence |-> fence]

NoItem(err) ==
    [err |-> err, mBuf |-> INVALID_BUFFER_SLOT, mFence |-> NoFence,
     mGraphicBuffer |-> NullBuffer]

Item(slot, fence, gb) ==
    [err |-> NO_ERROR, mBuf |-> slot, mFence |-> fence, mGraphicBuffer |-> gb]

\* The surface's state as the handlers see it, with the calls made so far.
Surface ==
    [slot |-> mCurrentBufferSlot, buf |-> mCurrentBuffer, slots |-> mSlots,
     state |-> slotState, ev |-> << >>]

\* ------------------------------ BufferQueue / ConsumerBase (from its contract)
\* A newly allocated buffer: none of the handles still referenced by the slot
\* table or by the surface (the lowest such handle stands for any of them).
Referenced == {mSlots[j].mGraphicBuffer : j \in Slots} \cup {mCurrentBuffer}

NewBuffers ==
    {b \in Buffers \ Referenced : \A c \in Buffers \ Referenced : b <= c}

\* The results acquireNext() can deliver in the current state.  A frame item
\* names a slot and carries the producer's acquire fence; it carries a buffer
\* handle when the pool (re)allocated the slot's buffer since the consumer last
\* saw it, which is always the case for a slot whose table entry is empty.
AcquireResults ==
    {NoItem(NO_BUFFER_AVAILABLE)}
    \cup {NoItem(e) : e \in PoolErrors}
    \cup {Item(i, f, NullBuffer) :
            i \in {j \in Slots : mSlots[j].mGraphicBuffer # NullBuffer},
            f \in Fences \cup {NoFence}}
    \cup {Item(i, f, b) :
            i \in Slots, f \in Fences \cup {NoFence}, b \in NewBuffers}

\* The results release(slot, fence) can deliver.
ReleaseResults == {NO_ERROR, STALE_BUFFER_SLOT} \cup PoolErrors

\* The release results to tell apart after acquire result acq: the pool is
\* asked to release only when an item was acquired while a slot was current.
ReleaseResultsAfter(acq) ==
    IF acq.err = NO_ERROR /\ mCurrentBufferSlot # INVALID_BUFFER_SLOT
    THEN ReleaseResults
    ELSE {NO_ERROR}

\* The results of the pool's fence-attach operation.
AddFenceResults == {NO_ERROR} \cup PoolErrors

\* The fence-attach results to tell apart for descriptor fenceFd: the pool is
\* asked only for a valid descriptor while a slot is current.
AddFenceResultsFor(fenceFd) ==
    IF fenceFd >= 0 /\ mCurrentBufferSlot # INVALID_BUFFER_SLOT
    THEN AddFenceResults
    ELSE {NO_ERROR}

\* The results of the poster's post operation.
PostResults == {NO_ERROR} \cup PosterErrors

\* The post results to tell apart after acquire result acq and release result
\* rel: the poster is not reached once one of them is an error.
PostResultsAfter(acq, rel) ==
    IF acq.err \in PoolErrors \/ rel \in PoolErrors
    THEN {NO_ERROR}
    ELSE PostResults

\* ConsumerBase::acquireBufferLocked: asks the pool for the next item; on
\* success the slot table takes the item's buffer handle, if it carries one,
\* and the slot is acquired by the consumer.
acquireBufferLocked(s, acq) ==
    LET s1 == [s EXCEPT !.ev = Append(@, Ev("acquire", acq.mBuf, acq.mGraphicBuffer, acq.mFence))]
    IN  IF acq.err # NO_ERROR THEN s1
        ELSE [s1 EXCEPT
                !.slots[acq.mBuf].mGraphicBuffer =
                    IF acq.mGraphicBuffer # NullBuffer THEN acq.mGraphicBuffer ELSE @,
                !.state[acq.mBuf] = "Acquired"]

\* ConsumerBase::freeBufferLocked: drops the slot's buffer handle and fence.
ConsumerBase_freeBufferLocked(s, slotIndex) ==
    [s EXCEPT !.slots[slotIndex] = [mGraphicBuffer |-> NullBuffer, mFence |-> {}],
              !.state[slotIndex] = "Free",
              !.ev = Append(@, Ev("free", slotIndex, NullBuffer, NoFence))]

\* ------------------------------------------------- FramebufferSurface.cpp
\* A mutation of freeBufferLocked: the current slot is not reset.
freeBufferLocked_NoReset(s, slotIndex) ==
    ConsumerBase_freeBufferLocked(s, slotIndex)

\* FramebufferSurface::freeBufferLocked (lines 131-136).
freeBufferLocked(s, slotIndex) ==
    LET s1 == ConsumerBase_freeBufferLocked(s, slotIndex)
    IN  IF slotIndex = s1.slot
        THEN [s1 EXCEPT !.slot = INVALID_BUFFER_SLOT]
        ELSE s1

\* ConsumerBase::releaseBufferLocked: hands the slot back to the pool with the
\* given sync and the slot's release fence; a stale slot is freed through the
\* (virtual) freeBufferLocked; the slot's release fence is dropped.
releaseBufferLocked(s, slot, eglFence, rel) ==
    LET s1 == [s EXCEPT !.ev = Append(@, Ev("release", slot, NullBuffer, eglFence))]
        s2 == IF rel = STALE_BUFFER_SLOT THEN freeBufferLocked(s1, slot)
              ELSE IF rel = NO_ERROR THEN [s1 EXCEPT !.state[slot] = "Free"]
              ELSE s1
    IN  [s2 EXCEPT !.slots[slot].mFence = {}]

\* What a call of nextBuffer hands back: the surface after it, the status,
\* the two out parameters, and the result of the release it made ("none" if
\* it made none).
Ret(s, err, outBuffer, outFence, rel) ==
    [s |-> s, err |-> err, outBuffer |-> outBuffer, outFence |-> outFence,
     rel |-> rel]

\* A mutation of the release guard: the same-index test is dropped.
NeedsRelease_NoIndexTest(cur, itemBuf) ==
    cur # INVALID_BUFFER_SLOT

\* A mutation of the release guard: the previous slot is never released.
NeedsRelease_Never(cur, itemBuf) ==
    FALSE

\* nextBuffer, lines 98-99: is the previous buffer to be released?
NeedsRelease(cur, itemBuf) ==
    cur # INVALID_BUFFER_SLOT /\ itemBuf # cur

\* A mutation of the release call: the newly acquired slot is released.
ReleasedSlot_Acquired(cur, itemBuf) ==
    itemBuf

\* nextBuffer, line 101: the slot handed to releaseBufferLocked.
ReleasedSlot(cur, itemBuf) ==
    cur

\* A mutation of the release check: a stale slot is treated as a failure.
ReleaseFailed_StaleFails(err) ==
    err # NO_ERROR

\* nextBuffer, line 103: did the release fail?
ReleaseFailed(err) ==
    err # NO_ERROR /\ err # STALE_BUFFER_SLOT

\* A mutation of the no-buffer branch: the slot table is read instead of
\* mCurrentBuffer.
NoBufferAvailableReturn_FromTable(s, outBuffer, outFence) ==
    Ret(s, NO_ERROR,
        IF s.slot = INVALID_BUFFER_SLOT THEN NullBuffer
        ELSE s.slots[s.slot].mGraphicBuffer,
        outFence, "none")

\* nextBuffer, lines 82-84: nothing new, hand back the current buffer.
NoBufferAvailableReturn(s, outBuffer, outFence) ==
    Ret(s, NO_ERROR, s.buf, outFence, "none")

\* A mutation of the acquire error branch: the error is swallowed.
AcquireErrorReturn_Swallowed(s, err, outBuffer, outFence) ==
    Ret(s, NO_ERROR, outBuffer, outFence, "none")

\* nextBuffer, lines 85-88: the acquire error is returned.
AcquireErrorReturn(s, err, outBuffer, outFence) ==
    Ret(s, err, outBuffer, outFence, "none")

\* A mutation of the release error branch: the new slot is latched first.
ReleaseErrorReturn_Latched(s, item, err, outBuffer, outFence, rel) ==
    Ret([s EXCEPT !.slot = item.mBuf,
                  !.buf = s.slots[item.mBuf].mGraphicBuffer],
        err, outBuffer, outFence, rel)

\* nextBuffer, lines 103-106: the release error is returned.
ReleaseErrorReturn(s, item, err, outBuffer, outFence, rel) ==
    Ret(s, err, outBuffer, outFence, rel)

\* A mutation of the latch: the acquire fence is not handed out.
Latch_NoFence(s, item, outBuffer, outFence, rel) ==
    LET s1 == [s EXCEPT !.slot = item.mBuf,
                        !.state[item.mBuf] = "Current",
                        !.ev = Append(@, Ev("setCurrent", item.mBuf, NullBuffer, NoFence))]
        s2 == [s1 EXCEPT !.buf = s1.slots[s1.slot].mGraphicBuffer]
    IN  Ret(s2, NO_ERROR, s2.buf, outFence, rel)

\* A mutation of the latch: the buffer handle is not reread from the table.
Latch_NoReread(s, item, outBuffer, outFence, rel) ==
    LET s1 == [s EXCEPT !.slot = item.mBuf,
                        !.state[item.mBuf] = "Current",
                        !.ev = Append(@, Ev("setCurrent", item.mBuf, NullBuffer, NoFence))]
    IN  Ret(s1, NO_ERROR, s1.buf, item.mFence, rel)

\* nextBuffer, lines 108-112: the acquired slot becomes the current one, the
\* current buffer is read from the slot table, the item's fence is handed out.
Latch(s, item, outBuffer, outFence, rel) ==
    LET s1 == [s EXCEPT !.slot = item.mBuf,
                        !.state[item.mBuf] = "Current",
                        !.ev = Append(@, Ev("setCurrent", item.mBuf, NullBuffer, NoFence))]
        s2 == [s1 EXCEPT !.buf = s1.slots[s1.slot].mGraphicBuffer]
    IN  Ret(s2, NO_ERROR, s2.buf, item.mFence, rel)

\* FramebufferSurface::nextBuffer (lines 77-113), under mMutex.  acq is what
\* the pool's acquire delivers, rel what its release delivers if one is made.
nextBuffer(s, outBuffer, outFence, acq, rel) ==
    LET s1 == acquireBufferLocked(s, acq)
    IN  IF acq.err = NO_BUFFER_AVAILABLE
        THEN NoBufferAvailableReturn(s1, outBuffer, outFence)
        ELSE IF acq.err # NO_ERROR
        THEN AcquireErrorReturn(s1, acq.err, outBuffer, outFence)
        ELSE IF NeedsRelease(s1.slot, acq.mBuf)
        THEN LET s2 == releaseBufferLocked(s1, ReleasedSlot(s1.slot, acq.mBuf),
                                           NoFence, rel)
             IN  IF ReleaseFailed(rel)
                 THEN ReleaseErrorReturn(s2, acq, rel, outBuffer, outFence, rel)
                 ELSE Latch(s2, acq, outBuffer, outFence, rel)
        ELSE Latch(s1, acq, outBuffer, outFence, "none")

\* HWComposer::fbPost: the poster is handed the buffer and its fence for
\* display 0.
fbPost(s, disp, fence, buf) ==
    [s EXCEPT !.ev = Append(@, Ev("post", disp, buf, fence))]

\* What a notification leaves behind: nextBuffer's results and the result of
\* the post ("none" if none was made).
Posted(r, post) ==
    [s |-> r.s, err |-> r.err, outBuffer |-> r.outBuffer, outFence |-> r.outFence,
     rel |-> r.rel, post |-> post]

\* A mutation of the notification handler: the post is made whatever
\* nextBuffer returned.
PostOrAbort_AlwaysPost(r, postErr) ==
    Posted([r EXCEPT !.s = fbPost(r.s, 0, r.outFence, r.outBuffer)], postErr)

\* onFrameAvailable, lines 120-128: abort on error, otherwise post the
\* returned buffer with the returned fence.
PostOrAbort(r, postErr) ==
    IF r.err # NO_ERROR
    THEN Posted(r, "none")
    ELSE Posted([r EXCEPT !.s = fbPost(r.s, 0, r.outFence, r.outBuffer)], postErr)

\* FramebufferSurface::onFrameAvailable (lines 116-129): buf and acquireFence
\* start out null (lines 117-118).
onFrameAvailable(s, acq, rel, postErr) ==
    PostOrAbort(nextBuffer(s, NullBuffer, NoFence, acq, rel), postErr)

\* ConsumerBase::addReleaseFence: on success the fence joins the slot's
\* release fence.
addReleaseFence(s, slot, fence, res) ==
    LET s1 == [s EXCEPT !.ev = Append(@, Ev("addReleaseFence", slot, NullBuffer, fence))]
    IN  IF res = NO_ERROR
        THEN [s1 EXCEPT !.slots[slot].mFence = @ \cup {fence}]
        ELSE s1

\* A mutation of setReleaseFenceFd: the test for a current slot is dropped and
\* the fence goes to slot 0 when there is none.
setReleaseFenceFd_NoCurrentTest(s, fenceFd, res) ==
    IF fenceFd >= 0
    THEN [s |-> addReleaseFence(s, IF s.slot = INVALID_BUFFER_SLOT THEN 0 ELSE s.slot,
                                fenceFd, res),
          err |-> NO_ERROR]
    ELSE [s |-> s, err |-> NO_ERROR]

\* FramebufferSurface::setReleaseFenceFd (lines 138-149).  The err assigned
\* at line 143 is a new variable of the inner block; the function returns the
\* outer err of line 139.
setReleaseFenceFd(s, fenceFd, res) ==
    LET err == NO_ERROR
    IN  IF fenceFd >= 0 /\ s.slot # INVALID_BUFFER_SLOT
        THEN [s |-> addReleaseFence(s, s.slot, fenceFd, res), err |-> err]
        ELSE [s |-> s, err |-> err]

\* A mutation of setUpdateRectangle: it succeeds while nothing is current.
setUpdateRectangle_OkWhenEmpty(s, r) ==
    [s |-> s,
     err |-> IF s.slot = INVALID_BUFFER_SLOT THEN NO_ERROR ELSE INVALID_OPERATION]

\* FramebufferSurface::setUpdateRectangle (lines 151-154).
setUpdateRectangle(s, r) ==
    [s |-> s, err |-> INVALID_OPERATION]

\* ------------------------------------------------------------ the machine
\* The acquire results of the scenario: slot 0, slot 1, no buffer, slot 0.
ScenAcquires == <<0, 1, INVALID_BUFFER_SLOT, 0>>

\* Progress through the scenario after a nextBuffer call: one step further
\* when the call's acquire result is the scenario's next one and the pool
\* took the release, if one was made; otherwise the run has left it.
ScenNext(n, acq, rel) ==
    IF /\ n \in 0 .. (Len(ScenAcquires) - 1)
       /\ acq.err \in {NO_ERROR, NO_BUFFER_AVAILABLE}
       /\ acq.mBuf = ScenAcquires[n + 1]
       /\ rel \in {"none", NO_ERROR, STALE_BUFFER_SLOT}
    THEN n + 1
    ELSE -1

\* The record of a call: the operation and its argument, the current slot
\* and buffer it started from, what the pool delivered, the calls it made in
\* order, and what it handed back.
Call(op, arg, acq, rel, ev, err, outBuffer, outFence, post) ==
    [op |-> op, arg |-> arg,
     prevSlot |-> mCurrentBufferSlot, prevBuffer |-> mCurrentBuffer,
     acq |-> acq, rel |-> rel, ev |-> ev,
     err |-> err, outBuffer |-> outBuffer, outFence |-> outFence,
     post |-> post]

Latched(ev) == \E i \in 1 .. Len(ev) : ev[i].k = "setCurrent"

\* ---------------------------------------------------------------- threads
Threads == {"t1", "t2"}

\* The surface's fields that nextBuffer reads and writes, without the slots'
\* release fences.
Fields(s) ==
    [slot |-> s.slot, buf |-> s.buf, state |-> s.state,
     bufs |-> [i \in Slots |-> s.slots[i].mGraphicBuffer]]

\* The surface after construction (lines 60-65).
EmptySurface ==
    [slot |-> INVALID_BUFFER_SLOT, buf |-> NullBuffer,
     slots |-> [i \in Slots |-> [mGraphicBuffer |-> NullBuffer, mFence |-> {}]],
     state |-> [i \in Slots |-> "Free"], ev |-> << >>]

\* A thread's locals: the surface as it was when the thread took mMutex
\* (without the release fences, which setReleaseFenceFd changes without
\* mMutex), the acquired item, the release result, the fence descriptor and the current
\* slot read by setReleaseFenceFd.
NoLocals ==
    [snap |-> EmptySurface, item |-> NoItem("none"), rel |-> "none",
     fenceFd |-> -1, readSlot |-> INVALID_BUFFER_SLOT]

\* What the last step did, if it ended a nextBuffer call: whether the surface
\* is what the whole call, run alone from the surface it started from, leaves
\* behind.
NoObs ==
    [done |-> FALSE, serial |-> FALSE]

ThrInit ==
    [lock |-> "free",
     pc |-> [t \in Threads |-> "idle"],
     loc |-> [t \in Threads |-> NoLocals],
     obs |-> NoObs]

Init ==
    /\ mCurrentBufferSlot = INVALID_BUFFER_SLOT
    /\ mCurrentBuffer = NullBuffer
    /\ mSlots = [i \in Slots |-> [mGraphicBuffer |-> NullBuffer, mFence |-> {}]]
    /\ slotState = [i \in Slots |-> "Free"]
    /\ last = Call("init", 0, NoItem("none"), "none", << >>, NO_ERROR,
                   NullBuffer, NoFence, "none")
    /\ lastReturned = [valid |-> FALSE, buf |-> NullBuffer]
    /\ currentItemFence = NoFence
    /\ freedCurrent = FALSE
    /\ scen = 0
    /\ thr = ThrInit

\* The surface's fields after a handler.
SetSurface(s) ==
    /\ mCurrentBufferSlot' = s.slot
    /\ mCurrentBuffer' = s.buf
    /\ mSlots' = s.slots
    /\ slotState' = s.state

\* The bookkeeping after a nextBuffer call with acquire result acq.
AfterNextBuffer(acq, r) ==
    /\ lastReturned' = IF r.err = NO_ERROR
                       THEN [valid |-> TRUE, buf |-> r.outBuffer]
                       ELSE lastReturned
    /\ currentItemFence' = IF Latched(r.s.ev) THEN acq.mFence ELSE currentItemFence
    /\ freedCurrent' = IF Latched(r.s.ev) THEN FALSE ELSE freedCurrent
    /\ scen' = ScenNext(scen, acq, r.rel)

\* The frame-available notification, the caller of nextBuffer (line 119).
OnFrameAvailable ==
    \E acq \in AcquireResults : \E rel \in ReleaseResultsAfter(acq) :
      \E postErr \in PostResultsAfter(acq, rel) :
        \E r \in {onFrameAvailable(Surface, acq, rel, postErr)} :
            /\ SetSurface(r.s)
            /\ last' = Call("onFrameAvailable", 0, acq, r.rel, r.s.ev, r.err,
                            r.outBuffer, r.outFence, r.post)
            /\ AfterNextBuffer(acq, r)
            /\ UNCHANGED thr

\* ConsumerBase::onBuffersReleased: the pool discarded a slot's buffer and the
\* consumer frees the slot through freeBufferLocked, under mMutex.
OnSlotFreed ==
    \E index \in Slots :
        \E s \in {freeBufferLocked(Surface, index)} :
            /\ SetSurface(s)
            /\ last' = Call("freeBufferLocked", index, NoItem("none"), "none",
                            s.ev, NO_ERROR, NullBuffer, NoFence, "none")
            /\ freedCurrent' = (freedCurrent \/ index = mCurrentBufferSlot)
            /\ scen' = -1
            /\ UNCHANGED <<lastReturned, currentItemFence, thr>>

SetReleaseFenceFd ==
    \E fenceFd \in FenceFds : \E res \in AddFenceResultsFor(fenceFd) :
        \E r \in {setReleaseFenceFd(Surface, fenceFd, res)} :
            /\ SetSurface(r.s)
            /\ last' = Call("setReleaseFenceFd", fenceFd, NoItem("none"), res,
                            r.s.ev, r.err, NullBuffer, NoFence, "none")
            /\ UNCHANGED <<lastReturned, currentItemFence, freedCurrent, scen, thr>>

SetUpdateRectangle ==
    \E rect \in Rects :
        \E r \in {setUpdateRectangle(Surface, rect)} :
            /\ SetSurface(r.s)
            /\ last' = Call("setUpdateRectangle", rect, NoItem("none"), "none",
                            r.s.ev, r.err, NullBuffer, NoFence, "none")
            /\ UNCHANGED <<lastReturned, currentItemFence, freedCurrent, scen, thr>>

Next ==
    \/ OnFrameAvailable
    \/ OnSlotFreed
    \/ SetReleaseFenceFd
    \/ SetUpdateRectangle

Spec == Init /\ [][Next]_vars

\* ------------------------------------------- the machine, step by step
\* A mutation of the lock: mMutex is not taken.
mMutexAvailable_NoLock(lock) ==
    TRUE

\* Mutex::Autolock lock(mMutex), line 78: the caller goes on once no thread
\* holds mMutex.
mMutexAvailable(lock) ==
    lock = "free"

\* Thread t's call ends: mMutex is released if t holds it (the Autolock goes
\* out of scope), the locals are gone.
Ended(t, obs) ==
    thr' = [thr EXCEPT !.lock = IF @ = t THEN "free" ELSE @,
                       !.pc[t] = "idle",
                       !.loc[t] = NoLocals,
                       !.obs = obs]

\* The end of a nextBuffer call that started from surface snap, was
\* delivered acq and rel by the pool and leaves surface s.
DoneObs(obs, s, snap, acq, rel) ==
    [obs EXCEPT
        !.done = TRUE,
        !.serial = (Fields(s) = Fields(nextBuffer(snap, NullBuffer, NoFence, acq,
                                                  IF rel = "none" THEN NO_ERROR
                                                  ELSE rel).s))]

\* onFrameAvailable, lines 116-119: thread t is told of a frame and calls
\* nextBuffer.
T_OnFrameAvailable(t) ==
    /\ thr.pc[t] = "idle"
    /\ UNCHANGED hist
    /\ thr' = [thr EXCEPT !.pc[t] = "nb_lock", !.obs = NoObs]
    /\ UNCHANGED <<mCurrentBufferSlot, mCurrentBuffer, mSlots, slotState>>

\* nextBuffer, line 78: thread t takes mMutex.
T_Lock(t) ==
    /\ thr.pc[t] = "nb_lock"
    /\ UNCHANGED hist
    /\ mMutexAvailable(thr.lock)
    /\ thr' = [thr EXCEPT !.lock = t, !.pc[t] = "nb_acquire",
                          !.loc[t].snap = [Surface EXCEPT !.slots =
                              [i \in Slots |-> [@[i] EXCEPT !.mFence = {}]]],
                          !.obs = NoObs]
    /\ UNCHANGED <<mCurrentBufferSlot, mCurrentBuffer, mSlots, slotState>>

\* nextBuffer, lines 80-99: the acquire, the two early returns (after the
\* first, the post of lines 125-128 follows and touches no shared state) and
\* the test for a release.
T_Acquire(t) ==
    /\ thr.pc[t] = "nb_acquire"
    /\ UNCHANGED hist
    /\ \E acq \in AcquireResults :
        \E s1 \in {acquireBufferLocked(Surface, acq)} :
            IF acq.err = NO_BUFFER_AVAILABLE
            THEN \E s \in {NoBufferAvailableReturn(s1, NullBuffer, NoFence).s} :
                    /\ SetSurface(s)
                    /\ Ended(t, DoneObs(NoObs, s, thr.loc[t].snap, acq, "none"))
            ELSE IF acq.err # NO_ERROR
            THEN \E s \in {AcquireErrorReturn(s1, acq.err, NullBuffer, NoFence).s} :
                    /\ SetSurface(s)
                    /\ Ended(t, DoneObs(NoObs, s, thr.loc[t].snap, acq, "none"))
            ELSE /\ SetSurface(s1)
                 /\ thr' = [thr EXCEPT
                                !.pc[t] = IF NeedsRelease(s1.slot, acq.mBuf)
                                          THEN "nb_release" ELSE "nb_latch",
                                !.loc[t].item = acq,
                                !.obs = NoObs]

\* nextBuffer, lines 101-106: the release of the previous buffer.
T_Release(t) ==
    /\ thr.pc[t] = "nb_release"
    /\ UNCHANGED hist
    /\ \E rel \in ReleaseResults :
        LET slot == ReleasedSlot(mCurrentBufferSlot, thr.loc[t].item.mBuf)
        IN  \E s2 \in {releaseBufferLocked(Surface, slot, NoFence, rel)} :
                IF ReleaseFailed(rel)
                THEN \E s \in {ReleaseErrorReturn(s2, thr.loc[t].item, rel,
                                                  NullBuffer, NoFence, rel).s} :
                        /\ SetSurface(s)
                        /\ Ended(t, DoneObs(NoObs, s, thr.loc[t].snap,
                                            thr.loc[t].item, rel))
                ELSE /\ SetSurface(s2)
                     /\ thr' = [thr EXCEPT !.pc[t] = "nb_latch",
                                           !.loc[t].rel = rel,
                                           !.obs = NoObs]

\* nextBuffer, lines 108-113: the latch and the return, which releases
\* mMutex; the post that follows (lines 125-128) touches no shared state.
T_Latch(t) ==
    /\ thr.pc[t] = "nb_latch"
    /\ UNCHANGED hist
    /\ \E s \in {Latch(Surface, thr.loc[t].item, NullBuffer, NoFence,
                        thr.loc[t].rel).s} :
        /\ SetSurface(s)
        /\ Ended(t, DoneObs(NoObs, s, thr.loc[t].snap, thr.loc[t].item,
                            thr.loc[t].rel))

\* ConsumerBase::onBuffersReleased: freeBufferLocked under mMutex.
T_Free(t) ==
    /\ thr.pc[t] = "idle"
    /\ UNCHANGED hist
    /\ mMutexAvailable(thr.lock)
    /\ \E index \in Slots : SetSurface(freeBufferLocked(Surface, index))
    /\ Ended(t, NoObs)

\* setReleaseFenceFd, lines 139-142: the tests of the descriptor and of the
\* current slot, made without mMutex.
T_FenceTest(t) ==
    /\ thr.pc[t] = "idle"
    /\ UNCHANGED hist
    /\ \E fenceFd \in FenceFds :
        /\ fenceFd >= 0
        /\ mCurrentBufferSlot # INVALID_BUFFER_SLOT
        /\ thr' = [thr EXCEPT !.pc[t] = "sr_attach",
                              !.loc[t].fenceFd = fenceFd,
                              !.loc[t].readSlot = mCurrentBufferSlot,
                              !.obs = NoObs]
    /\ UNCHANGED <<mCurrentBufferSlot, mCurrentBuffer, mSlots, slotState>>

\* setReleaseFenceFd, line 143: the attach, made without mMutex.  The slot
\* handed to addReleaseFence is the value of mCurrentBufferSlot read for the
\* test of line 142 or the value it has now: the two reads are not ordered
\* against the writes of other threads (a value of INVALID_BUFFER_SLOT read
\* now would index outside the slot table and is left out).
T_FenceAttach(t) ==
    /\ thr.pc[t] = "sr_attach"
    /\ UNCHANGED hist
    /\ \E slot \in ({thr.loc[t].readSlot, mCurrentBufferSlot} \cap Slots) :
        \E res \in AddFenceResults :
            /\ SetSurface([setReleaseFenceFd([Surface EXCEPT !.slot = slot],
                                             thr.loc[t].fenceFd, res).s
                            EXCEPT !.slot = mCurrentBufferSlot])
            /\ Ended(t, NoObs)

NextThreads ==
    \/ \E t \in Threads : T_OnFrameAvailable(t)
    \/ \E t \in Threads : T_Lock(t)
    \/ \E t \in Threads : T_Acquire(t)
    \/ \E t \in Threads : T_Release(t)
    \/ \E t \in Threads : T_Latch(t)
    \/ \E t \in Threads : T_Free(t)
    \/ \E t \in Threads : T_FenceTest(t)
    \/ \E t \in Threads : T_FenceAttach(t)

\* Calls of onFrameAvailable, onBuffersReleased and setReleaseFenceFd made by
\* two threads, interleaved at their accesses to the shared state.
SpecThreads == Init /\ [][NextThreads]_vars

\* ------------------------------------------------------------ properties
Only(ev, k) == SelectSeq(ev, LAMBDA e : e.k = k)
Releases(ev) == Only(ev, "release")
Posts(ev) == Only(ev, "post")

\* The position of the first event of kind k in ev (0: there is none).
Pos(ev, k) ==
    IF \E i \in 1 .. Len(ev) : ev[i].k = k
    THEN CHOOSE i \in 1 .. Len(ev) :
            ev[i].k = k /\ \A j \in 1 .. (i - 1) : ev[j].k # k
    ELSE 0

\* The last call was a notification, that is a call of nextBuffer.
InNextBuffer == last.op = "onFrameAvailable"
GotItem == InNextBuffer /\ last.acq.err = NO_ERROR
GotNoBuffer == InNextBuffer /\ last.acq.err = NO_BUFFER_AVAILABLE

\* C1: after onSlotFreed(index) with index the current slot, the next
\* nextBuffer() call for which the pool reports NoBufferAvailable returns a
\* null buffer, not the handle that was current before the free.
C1_FreedCurrentReset ==
    (GotNoBuffer /\ freedCurrent) => last.outBuffer = NullBuffer

\* C2: at most one slot is held by the surface as Current, and such a slot is
\* the tracked current slot mCurrentBufferSlot.
C2_SingleCurrent ==
    LET cs == {i \in Slots : slotState[i] = "Current"}
    IN  /\ Cardinality(cs) <= 1
        /\ \A i \in cs : i = mCurrentBufferSlot

\* A slot became Current in place of another one, which was released.
C2_Witness ==
    /\ GotItem
    /\ last.prevSlot # INVALID_BUFFER_SLOT
    /\ last.prevSlot # mCurrentBufferSlot
    /\ slotState[mCurrentBufferSlot] = "Current"

\* C3: a nextBuffer() call in which the pool reports NoBufferAvailable returns
\* success with the buffer the most recent successful nextBuffer() call
\* returned, and leaves the current slot and current buffer as they were.
C3_NoRegression ==
    [][(last'.op = "onFrameAvailable" /\ last'.acq.err = NO_BUFFER_AVAILABLE)
        => /\ last'.err = NO_ERROR
           /\ lastReturned.valid => last'.outBuffer = lastReturned.buf
           /\ mCurrentBufferSlot' = mCurrentBufferSlot
           /\ mCurrentBuffer' = mCurrentBuffer]_vars

\* A no-buffer call handed back a buffer that an earlier call had latched.
C3_Witness ==
    /\ GotNoBuffer
    /\ last.outBuffer # NullBuffer
    /\ last.outBuffer = lastReturned.buf

\* C4 as stated: the fence posted with a buffer is the acquire fence of the
\* frame item through which that buffer became current.
C4_PostsItemFence ==
    (InNextBuffer /\ Posts(last.ev) # << >>)
        => Posts(last.ev)[1].fence = currentItemFence

\* C4 as amended: a post made by a notification that obtained a frame item
\* carries the buffer of that item's slot and that item's acquire fence; a
\* post made when the pool reported NoBufferAvailable carries the current
\* buffer and no fence.
C4_FencePropagation ==
    (InNextBuffer /\ Posts(last.ev) # << >>)
        => /\ Posts(last.ev)[1].buf = mCurrentBuffer
           /\ GotItem => /\ Posts(last.ev)[1].fence = last.acq.mFence
                         /\ Posts(last.ev)[1].buf = mSlots[last.acq.mBuf].mGraphicBuffer
           /\ GotNoBuffer => Posts(last.ev)[1].fence = NoFence

\* A post of a newly latched buffer with a fence that is not null.
C4_Witness ==
    /\ GotItem
    /\ Posts(last.ev) # << >>
    /\ Posts(last.ev)[1].fence # NoFence
    /\ Posts(last.ev)[1].buf # NullBuffer

\* C5: when the current slot is K and the acquired item's slot is K again,
\* nextBuffer() makes no release call, keeps the current slot K and sets the
\* current buffer to the buffer the slot table holds at K after the acquire.
C5_SameIndexSkip ==
    (GotItem /\ last.prevSlot # INVALID_BUFFER_SLOT /\ last.acq.mBuf = last.prevSlot)
        => /\ Releases(last.ev) = << >>
           /\ last.err = NO_ERROR
           /\ mCurrentBufferSlot = last.prevSlot
           /\ mCurrentBuffer = mSlots[last.prevSlot].mGraphicBuffer
           /\ last.acq.mGraphicBuffer # NullBuffer
                => mCurrentBuffer = last.acq.mGraphicBuffer

\* The current slot was acquired again with a reallocated buffer.
C5_Witness ==
    /\ GotItem
    /\ last.prevSlot # INVALID_BUFFER_SLOT
    /\ last.acq.mBuf = last.prevSlot
    /\ last.acq.mGraphicBuffer # NullBuffer
    /\ last.prevBuffer # NullBuffer
    /\ mCurrentBuffer # last.prevBuffer

\* C6: when a current slot K exists and the acquired item's slot J differs
\* from K, nextBuffer() makes exactly one release call, release(K, no fence),
\* and makes it before the current slot becomes J; over the acquire results
\* slot 0, slot 1, no buffer, slot 0 (from the initial state, each release
\* taken by the pool) the current slot goes 0, 1, 1, 0 with slot 0 released in
\* the second call and slot 1 in the fourth.
C6_ReleasePrevious ==
    /\ (GotItem /\ last.prevSlot # INVALID_BUFFER_SLOT /\ last.acq.mBuf # last.prevSlot)
        => /\ Releases(last.ev) = <<Ev("release", last.prevSlot, NullBuffer, NoFence)>>
           /\ mCurrentBufferSlot = last.acq.mBuf
                => /\ Pos(last.ev, "setCurrent") > 0
                   /\ Pos(last.ev, "release") < Pos(last.ev, "setCurrent")
           /\ mCurrentBufferSlot # last.acq.mBuf
                => /\ last.rel \in PoolErrors
                   /\ Pos(last.ev, "setCurrent") = 0
    /\ scen = 1 => mCurrentBufferSlot = 0
    /\ scen = 2 => mCurrentBufferSlot = 1
    /\ scen = 3 => mCurrentBufferSlot = 1
    /\ scen = 4 => mCurrentBufferSlot = 0
    /\ (InNextBuffer /\ scen \in {1, 3}) => Releases(last.ev) = << >>
    /\ (InNextBuffer /\ scen = 2)
        => Releases(last.ev) = <<Ev("release", 0, NullBuffer, NoFence)>>
    /\ (InNextBuffer /\ scen = 4)
        => /\ Releases(last.ev) = <<Ev("release", 1, NullBuffer, NoFence)>>
           /\ mCurrentBuffer = mSlots[0].mGraphicBuffer

\* The fourth call of the scenario has been made.
C6_Witness ==
    InNextBuffer /\ scen = 4

\* C7: if the release of the previous current slot returns STALE_BUFFER_SLOT,
\* nextBuffer() returns success, the current slot is the newly acquired one,
\* and that slot's buffer and the item's acquire fence are returned.
C7_StaleTolerance ==
    (InNextBuffer /\ last.rel = STALE_BUFFER_SLOT)
        => /\ last.err = NO_ERROR
           /\ mCurrentBufferSlot = last.acq.mBuf
           /\ mCurrentBuffer = mSlots[last.acq.mBuf].mGraphicBuffer
           /\ last.outBuffer = mCurrentBuffer
           /\ last.outFence = last.acq.mFence

\* The pool called the released slot stale.
C7_Witness ==
    /\ InNextBuffer
    /\ last.rel = STALE_BUFFER_SLOT
    /\ Releases(last.ev) # << >>
    /\ last.acq.mFence # NoFence

\* C8: if the release of the previous current slot returns a result other
\* than OK and StaleSlot, nextBuffer() returns that result and the current
\* slot and current buffer are what they were before the call.
C8_ReleaseFailure ==
    (InNextBuffer /\ last.rel \in PoolErrors)
        => /\ last.err = last.rel
           /\ mCurrentBufferSlot = last.prevSlot
           /\ mCurrentBuffer = last.prevBuffer

\* The pool refused the release of the previous slot.
C8_Witness ==
    /\ InNextBuffer
    /\ last.rel \in PoolErrors
    /\ Releases(last.ev) # << >>
    /\ last.prevSlot # last.acq.mBuf

\* C9: if the acquire returns an error other than NoBufferAvailable,
\* nextBuffer() returns that error, makes no release call and leaves the
\* current slot and current buffer unchanged.
C9_AcquireFailure ==
    (InNextBuffer /\ last.acq.err \in PoolErrors)
        => /\ last.err = last.acq.err
           /\ Releases(last.ev) = << >>
           /\ mCurrentBufferSlot = last.prevSlot
           /\ mCurrentBuffer = last.prevBuffer

\* The acquire failed while a slot was current.
C9_Witness ==
    /\ InNextBuffer
    /\ last.acq.err \in PoolErrors
    /\ last.prevSlot # INVALID_BUFFER_SLOT

\* The surface after nextBuffer alone, from the state before a notification
\* with acquire result acq and release result rel.
AfterNextBufferAlone(acq, rel) ==
    nextBuffer(Surface, NullBuffer, NoFence, acq,
               IF rel = "none" THEN NO_ERROR ELSE rel).s

\* C10: a notification calls nextBuffer() once; if that succeeds, exactly one
\* post is made, of the returned buffer and fence, after the current-slot
\* update; if it fails, no post is made; a post error changes no surface
\* state.
C10_OnFrameAvailablePosting ==
    [][last'.op = "onFrameAvailable"
        => /\ Len(Only(last'.ev, "acquire")) = 1
           /\ last'.err = NO_ERROR
                => /\ Posts(last'.ev)
                        = <<Ev("post", 0, last'.outBuffer, last'.outFence)>>
                   /\ Pos(last'.ev, "post") = Len(last'.ev)
                   /\ Pos(last'.ev, "setCurrent") < Pos(last'.ev, "post")
                   /\ last'.outBuffer = mCurrentBuffer'
           /\ last'.err # NO_ERROR
                => /\ Posts(last'.ev) = << >>
                   /\ last'.post = "none"
           /\ last'.post \in PosterErrors
                => LET s == AfterNextBufferAlone(last'.acq, last'.rel)
                   IN  /\ mCurrentBufferSlot' = s.slot
                       /\ mCurrentBuffer' = s.buf
                       /\ mSlots' = s.slots
                       /\ slotState' = s.state]_vars

\* The poster refused the post of a newly latched buffer.
C10_Witness ==
    /\ GotItem
    /\ last.post \in PosterErrors
    /\ Posts(last.ev) # << >>
    /\ mCurrentBufferSlot = last.acq.mBuf

\* C11: setReleaseFenceFd with a valid fence attaches it to the slot that is
\* current at that moment and to no other slot; when there is no current
\* slot it attaches nothing to any slot; in both cases the current slot and
\* current buffer are unchanged.
C11_AttachTarget ==
    [][last'.op = "setReleaseFenceFd"
        => /\ mCurrentBufferSlot' = mCurrentBufferSlot
           /\ mCurrentBuffer' = mCurrentBuffer
           /\ \A i \in Slots : i # mCurrentBufferSlot => mSlots'[i] = mSlots[i]
           /\ mCurrentBufferSlot = INVALID_BUFFER_SLOT
                => /\ mSlots' = mSlots
                   /\ last'.ev = << >>
           /\ (last'.arg >= 0 /\ mCurrentBufferSlot # INVALID_BUFFER_SLOT)
                => /\ last'.ev = <<Ev("addReleaseFence", mCurrentBufferSlot,
                                      NullBuffer, last'.arg)>>
                   /\ last'.rel = NO_ERROR
                        => mSlots'[mCurrentBufferSlot].mFence
                            = mSlots[mCurrentBufferSlot].mFence \cup {last'.arg}
                   /\ mSlots'[mCurrentBufferSlot].mGraphicBuffer
                        = mSlots[mCurrentBufferSlot].mGraphicBuffer]_vars

\* A valid fence was attached to the current slot while another slot holds a
\* buffer and no fence.
C11_Witness ==
    /\ last.op = "setReleaseFenceFd"
    /\ last.arg >= 0
    /\ mCurrentBufferSlot # INVALID_BUFFER_SLOT
    /\ last.arg \in mSlots[mCurrentBufferSlot].mFence
    /\ \E i \in Slots : /\ i # mCurrentBufferSlot
                        /\ mSlots[i].mGraphicBuffer # NullBuffer
                        /\ mSlots[i].mFence = {}

\* C12: when the pool's fence attach on the current slot fails with an
\* error, setReleaseFenceFd returns that error to its caller.
C12_AttachErrorReturned ==
    (last.op = "setReleaseFenceFd" /\ last.rel \in PoolErrors)
        => last.err = last.rel

\* C15: setUpdateRectangle returns INVALID_OPERATION for every region in every
\* state and leaves the current slot, current buffer and pool state unchanged.
C15_PartialUpdateUnsupported ==
    [][last'.op = "setUpdateRectangle"
        => /\ last'.err = INVALID_OPERATION
           /\ last'.ev = << >>
           /\ UNCHANGED <<mCurrentBufferSlot, mCurrentBuffer, mSlots, slotState>>]_vars

\* A partial update of the second region was asked for while a slot was
\* current.
C15_Witness ==
    /\ last.op = "setUpdateRectangle"
    /\ last.arg = "r1"
    /\ last.err = INVALID_OPERATION
    /\ mCurrentBufferSlot # INVALID_BUFFER_SLOT

\* C16: at the end of every nextBuffer() call, whatever its result, every
\* slot the surface has acquired from the pool and not released back is the
\* current slot.
C16_NoOrphanedAcquisition ==
    InNextBuffer
        => \A i \in Slots : slotState[i] # "Free" => i = mCurrentBufferSlot

\* C17: the surface calls release only inside a nextBuffer() call that
\* obtained a frame item, and only for the slot that was current when the
\* call started: never for the newly acquired slot, never when there was no
\* current slot, never when the acquire delivered no item.
C17_ReleaseDiscipline ==
    /\ ~GotItem => Releases(last.ev) = << >>
    /\ GotItem
        => /\ Len(Releases(last.ev)) <= 1
           /\ \A i \in 1 .. Len(Releases(last.ev)) :
                /\ last.prevSlot # INVALID_BUFFER_SLOT
                /\ Releases(last.ev)[i].slot = last.prevSlot
                /\ Releases(last.ev)[i].slot # last.acq.mBuf

\* A call that obtained an item released the slot that was current before.
C17_Witness ==
    /\ GotItem
    /\ Releases(last.ev) # << >>
    /\ Releases(last.ev)[1].slot = last.prevSlot

\* C18: between calls, if the current slot is a valid index then the current
\* buffer is the buffer the slot table holds at that index, and after a
\* nextBuffer() that obtained a frame item and succeeded the returned buffer
\* is that buffer and the returned fence is the item's acquire fence.
C18_SlotHandleConsistency ==
    /\ mCurrentBufferSlot # INVALID_BUFFER_SLOT
        => mCurrentBuffer = mSlots[mCurrentBufferSlot].mGraphicBuffer
    /\ (GotItem /\ last.err = NO_ERROR)
        => /\ last.outBuffer = mSlots[last.acq.mBuf].mGraphicBuffer
           /\ last.outFence = last.acq.mFence

\* The current slot was acquired again with a reallocated buffer and a fence.
C18_Witness ==
    /\ GotItem
    /\ last.err = NO_ERROR
    /\ last.prevSlot = last.acq.mBuf
    /\ last.prevBuffer # NullBuffer
    /\ last.outBuffer # last.prevBuffer
    /\ last.outFence # NoFence

\* C19: freeBufferLocked(index) with index different from the current slot
\* leaves the current slot and current buffer unchanged, and with index equal
\* to the current slot sets the current slot to INVALID_BUFFER_SLOT; in
\* neither case does it make a release or a post.
C19_FreeFrame ==
    last.op = "freeBufferLocked"
        => /\ last.arg # last.prevSlot
                => /\ mCurrentBufferSlot = last.prevSlot
                   /\ mCurrentBuffer = last.prevBuffer
           /\ last.arg = last.prevSlot
                => mCurrentBufferSlot = INVALID_BUFFER_SLOT
           /\ Releases(last.ev) = << >>
           /\ Posts(last.ev) = << >>

\* The current slot was freed.
C19_Witness ==
    /\ last.op = "freeBufferLocked"
    /\ last.arg = last.prevSlot
    /\ last.prevBuffer # NullBuffer

\* ------------------------------------------------- properties of threads
\* Thread t is inside the body of nextBuffer, between taking mMutex and
\* returning.
InBody(t) == thr.pc[t] \in {"nb_acquire", "nb_release", "nb_latch"}

\* C13: whenever setReleaseFenceFd attaches a fence, on any thread and in any
\* interleaving with nextBuffer and the freeing of slots, the slot whose
\* fences change is the current slot at that moment and the surface holds it.
C13_AttachToCurrent ==
    [][\A t \in Threads :
        (thr.pc[t] = "sr_attach" /\ thr'.pc[t] = "idle")
            => \A i \in Slots :
                mSlots'[i] # mSlots[i]
                    => (i = mCurrentBufferSlot /\ slotState[i] = "Current")]_vars

\* C14: calls of nextBuffer made by two threads do not overlap: at most one
\* thread is inside the body; a call that ends leaves the surface (release
\* fences apart) as the whole call would, run alone from the surface it found
\* when it took mMutex; and a call that is about to release a slot releases
\* one the surface still holds, so that no acquisition is released twice.
C14_SequentialHandoffs ==
    /\ \A t \in Threads : \A u \in Threads \ {t} : ~(InBody(t) /\ InBody(u))
    /\ thr.obs.done => thr.obs.serial
    /\ \A t \in Threads :
        thr.pc[t] = "nb_release"
            => LET slot == ReleasedSlot(mCurrentBufferSlot, thr.loc[t].item.mBuf)
               IN  slot \in Slots /\ slotState[slot] = "Current"

\* A call of nextBuffer that replaced the current buffer has just ended while
\* the other thread's call, made in the meantime, waits for mMutex.
C14_Witness ==
    /\ thr.obs.done
    /\ thr.obs.serial
    /\ mCurrentBufferSlot # INVALID_BUFFER_SLOT
    /\ \E i \in Slots \ {mCurrentBufferSlot} : mSlots[i].mGraphicBuffer # NullBuffer
    /\ \E t \in Threads : thr.pc[t] = "nb_lock"

====
